---- MODULE Spec2Model ----
(***************************************************************************)
(* Commitment context of the LCP light-client proxy:                       *)
(*   modules/commitments/src/context.rs                                    *)
(* temporal trust validation (TrustingPeriodContext::validate) and the     *)
(* EthABI wire format of CommitmentContext (header word + body bytes).     *)
(*                                                                         *)
(* Bytes are integers 0..255 and byte strings are sequences of them, so    *)
(* the encoders and decoders below build and read the real layout.         *)
(* Timestamps and durations are nanosecond counts; the representable       *)
(* ranges are scaled down to MaxTime and MaxDuration.                      *)
(***************************************************************************)
EXTENDS Integers, Sequences, FiniteSets, TLC

VARIABLES
    ctx,      \* the CommitmentContext value the caller holds
    now,      \* current_timestamp last passed to validate
    bz,       \* the byte string last produced by an encoder or received
    wire,     \* where bz comes from: "none", "encoded", "header", "received"
    op,       \* the last operation applied
    result    \* what the last operation returned

(* The LCP client of modules/ibc-client and the host store it is persisted *)
(* in, and one call of the verification dispatch of modules/handler.      *)
VARIABLES
    client_type_store, \* the stored client_type of the client ID, if created
    client_store,     \* the stored client state (an Any) of the client ID
    consensus_store,  \* the stored consensus state (an Any) at each height
    pending,          \* per caller: a returned result not yet persisted
    last,             \* the last light-client call and what it returned
    serialized,       \* whether the host allows one in-flight update only
    created_height,   \* the latest_height the client was created with
    applied,          \* the header heights of the updates persisted so far
    high_water,       \* the highest latest_height the store has held
    calls,            \* how many light-client calls were made
    request,          \* the verification request being dispatched
    pc,               \* the position of the dispatch call
    steps,            \* the steps the dispatch call has run, in order
    response          \* what the dispatch call returned

contextVars == <<ctx, now, bz, wire, op, result>>
clientVars ==
    <<client_type_store, client_store, consensus_store, pending, last, serialized,
      created_height, applied, high_water, calls>>
dispatchVars == <<request, pc, steps, response>>

vars == <<contextVars, clientVars, dispatchVars>>

----------------------------------------------------------------------------
(* Bounds of the model *)

\* largest representable timestamp (MAX_UNIX_TIMESTAMP_NANOS, scaled down)
MaxTime == 257
\* largest representable duration (u64::MAX seconds, scaled down)
MaxDuration == 300
\* big-endian integers read from the wire saturate here: every value at or
\* above it is larger than every range and length the model compares with
Saturation == 65536

----------------------------------------------------------------------------
(* Program constants *)

COMMITMENT_CONTEXT_TYPE_EMPTY == 0
COMMITMENT_CONTEXT_TYPE_WITHIN_TRUSTING_PERIOD == 1
COMMITMENT_CONTEXT_HEADER_SIZE == 32
\* an EthABI word; bytes32
EthABIWordSize == 32
\* a u128 in big-endian bytes
U128Size == 16

----------------------------------------------------------------------------
(* Results: Ok(v), Err(kind), or a panic (failed assert! / unwrap) *)

Ok(v) == [kind |-> "Ok", value |-> v, err |-> ""]
Err(e) == [kind |-> "Err", value |-> <<>>, err |-> e]
Panic(e) == [kind |-> "Panic", value |-> <<>>, err |-> e]
IsOk(r) == r.kind = "Ok"

----------------------------------------------------------------------------
(* Byte strings *)

Zeros(n) == [i \in 1..n |-> 0]

RECURSIVE ShiftRightBytes(_, _)
\* n >> (8 * k)
ShiftRightBytes(n, k) ==
    IF k = 0 \/ n = 0 THEN n ELSE ShiftRightBytes(n \div 256, k - 1)

\* uN::to_be_bytes: n as w big-endian bytes
to_be_bytes(n, w) == [i \in 1..w |-> ShiftRightBytes(n, w - i) % 256]

RECURSIVE BeFold(_, _, _)
BeFold(s, i, acc) ==
    IF i > Len(s) THEN acc
    ELSE LET v == acc * 256 + s[i]
         IN  BeFold(s, i + 1, IF v >= Saturation THEN Saturation ELSE v)

\* uN::from_be_bytes, saturating at Saturation
from_be_bytes(s) == BeFold(s, 1, 0)

\* data[from .. from+len) with 0-based from, as a Rust slice
Slice(data, from, len) == SubSeq(data, from + 1, from + len)

\* right-pad with zeros to a multiple of the word size
PadRight(b) ==
    b \o Zeros((EthABIWordSize - (Len(b) % EthABIWordSize)) % EthABIWordSize)

\* a usize as a 32-byte big-endian word
PadU32(n) == to_be_bytes(n, EthABIWordSize)

----------------------------------------------------------------------------
(* lcp_types: Time, Duration and their conversions.  A Time or a Duration  *)
(* is whole seconds plus sub-second nanoseconds.                           *)

\* nanoseconds per second (1_000_000_000, scaled down)
NanosPerSecond == 4

AsNanos(x) == x.secs * NanosPerSecond + x.nanos

\* Time::from_unix_timestamp_nanos(u128) -> Result<Time, TimeError>
from_unix_timestamp_nanos(n) ==
    IF n > MaxTime THEN Err("Time")
    ELSE Ok([secs |-> n \div NanosPerSecond, nanos |-> n % NanosPerSecond])

\* Time::as_unix_timestamp_nanos(&self) -> u128
as_unix_timestamp_nanos(t) == AsNanos(t)

\* nanos_to_duration(u128) -> Result<Duration, TimeError>
nanos_to_duration(n) ==
    IF n > MaxDuration THEN Err("Time")
    ELSE Ok([secs |-> n \div NanosPerSecond, nanos |-> n % NanosPerSecond])

\* Duration::as_nanos(&self) -> u128
as_nanos(d) == AsNanos(d)

\* impl Add<Duration> for Time: Output = Result<Time, TimeError>;
\* the sum is checked, never wrapped
TimeAdd(t, d) ==
    LET n == AsNanos(t) + AsNanos(d)
    IN  IF n > MaxTime THEN Err("Time")
        ELSE Ok([secs |-> n \div NanosPerSecond, nanos |-> n % NanosPerSecond])

\* PartialOrd of Time: a > b
TimeGT(a, b) ==
    \/ a.secs > b.secs
    \/ a.secs = b.secs /\ a.nanos > b.nanos

----------------------------------------------------------------------------
(* The contexts *)

Empty == [type |-> "Empty"]

\* TrustingPeriodContext::new followed by From<TrustingPeriodContext>
TrustingPeriod(trusting_period, clock_drift, untrusted_header_timestamp, trusted_state_timestamp) ==
    [type |-> "TrustingPeriod",
     trusting_period |-> trusting_period,
     clock_drift |-> clock_drift,
     untrusted_header_timestamp |-> untrusted_header_timestamp,
     trusted_state_timestamp |-> trusted_state_timestamp]

----------------------------------------------------------------------------
(* Temporal trust validation *)

\* the check reads  trusting_period_end >= now
ensure_within_trust_period_nonstrict(t, trusted_state_time, trusting_period) ==
    LET trusting_period_end == TimeAdd(trusted_state_time, trusting_period)
    IN  IF ~IsOk(trusting_period_end) THEN Err("Time")
        ELSE IF ~TimeGT(t, trusting_period_end.value) THEN Ok(<<>>)
        ELSE Err("OutOfTrustingPeriod")

\* the sum wraps around the representable range instead of failing
ensure_within_trust_period_wrapping(t, trusted_state_time, trusting_period) ==
    LET n == (AsNanos(trusted_state_time) + AsNanos(trusting_period))
                 % (MaxTime + 1)
        trusting_period_end ==
            [secs |-> n \div NanosPerSecond, nanos |-> n % NanosPerSecond]
    IN  IF TimeGT(trusting_period_end, t) THEN Ok(<<>>)
        ELSE Err("OutOfTrustingPeriod")

ensure_within_trust_period(t, trusted_state_time, trusting_period) ==
    LET trusting_period_end == TimeAdd(trusted_state_time, trusting_period)
    IN  IF ~IsOk(trusting_period_end) THEN Err("Time")
        ELSE IF TimeGT(trusting_period_end.value, t) THEN Ok(<<>>)
        ELSE Err("OutOfTrustingPeriod")

\* the check reads  current >= untrusted_header_time
ensure_header_from_past_nonstrict(t, untrusted_header_time, clock_drift) ==
    LET current == TimeAdd(t, clock_drift)
    IN  IF ~IsOk(current) THEN Err("Time")
        ELSE IF ~TimeGT(untrusted_header_time, current.value) THEN Ok(<<>>)
        ELSE Err("HeaderFromFuture")

ensure_header_from_past(t, untrusted_header_time, clock_drift) ==
    LET current == TimeAdd(t, clock_drift)
    IN  IF ~IsOk(current) THEN Err("Time")
        ELSE IF TimeGT(current.value, untrusted_header_time) THEN Ok(<<>>)
        ELSE Err("HeaderFromFuture")

\* the header check is skipped
TrustingPeriodContext_validate_first_only(c, current_timestamp) ==
    ensure_within_trust_period(current_timestamp, c.trusted_state_timestamp,
                               c.trusting_period)

\* the header check runs before the trust-period check
TrustingPeriodContext_validate_header_first(c, current_timestamp) ==
    LET r2 == ensure_header_from_past(current_timestamp,
                  c.untrusted_header_timestamp, c.clock_drift)
    IN  IF ~IsOk(r2) THEN r2
        ELSE LET r1 == ensure_within_trust_period(current_timestamp,
                           c.trusted_state_timestamp, c.trusting_period)
             IN  IF ~IsOk(r1) THEN r1 ELSE Ok(<<>>)

TrustingPeriodContext_validate(c, current_timestamp) ==
    LET r1 == ensure_within_trust_period(current_timestamp,
                  c.trusted_state_timestamp, c.trusting_period)
    IN  IF ~IsOk(r1) THEN r1
        ELSE LET r2 == ensure_header_from_past(current_timestamp,
                           c.untrusted_header_timestamp, c.clock_drift)
             IN  IF ~IsOk(r2) THEN r2 ELSE Ok(<<>>)

\* Empty is validated as a trusting period of zero length
validate_empty_as_expired(c, current_timestamp) ==
    IF c.type = "Empty" THEN Err("OutOfTrustingPeriod")
    ELSE TrustingPeriodContext_validate(c, current_timestamp)

\* CommitmentContext::validate
validate(c, current_timestamp) ==
    IF c.type = "Empty" THEN Ok(<<>>)
    ELSE TrustingPeriodContext_validate(c, current_timestamp)

----------------------------------------------------------------------------
(* ethabi: the tuple codec the context types are encoded with *)

\* peek_32_bytes(data, offset): the word at a 0-based offset
peek_32_bytes(data, offset) ==
    IF offset + EthABIWordSize > Len(data) THEN Err("EthABI")
    ELSE Ok(Slice(data, offset, EthABIWordSize))

\* as_usize(word): the word as an offset or a length; the upper 28 bytes
\* must be zero
as_usize(word) ==
    IF \E i \in 1..(EthABIWordSize - 4) : word[i] # 0 THEN Err("EthABI")
    ELSE Ok(from_be_bytes(Slice(word, EthABIWordSize - 4, 4)))

\* peek_32_bytes followed by as_usize
peek_usize(data, offset) ==
    LET w == peek_32_bytes(data, offset)
    IN  IF ~IsOk(w) THEN w ELSE as_usize(w.value)

\* take_bytes(data, offset, len) of the non-validating decoder
take_bytes(data, offset, len) ==
    IF offset + len > Len(data) THEN Err("EthABI")
    ELSE Ok(Slice(data, offset, len))

\* ethabi::encode(&[Tuple([FixedBytes(h), Bytes(b)])]): a dynamic tuple,
\* so the top level holds the offset of the tuple, and the tuple holds the
\* header word, the offset of the bytes, their length and the padded bytes
encode_tuple_fixed_bytes_bytes(h, b) ==
    PadU32(EthABIWordSize)
        \o PadRight(h)
        \o PadU32(2 * EthABIWordSize)
        \o PadU32(Len(b))
        \o PadRight(b)

\* ethabi::decode(&[Tuple([FixedBytes(32), Bytes])], data)
decode_tuple_fixed_bytes_bytes(data) ==
    IF Len(data) = 0 THEN Err("EthABI")
    ELSE
    LET offset == peek_usize(data, 0)
    IN  IF ~IsOk(offset) THEN offset
        ELSE IF offset.value > Len(data) THEN Err("EthABI")
        ELSE
        LET tail == Slice(data, offset.value, Len(data) - offset.value)
            fixed == take_bytes(tail, 0, EthABIWordSize)
        IN  IF ~IsOk(fixed) THEN fixed
            ELSE
            LET dynamic_offset == peek_usize(tail, EthABIWordSize)
            IN  IF ~IsOk(dynamic_offset) THEN dynamic_offset
                ELSE
                LET len == peek_usize(tail, dynamic_offset.value)
                IN  IF ~IsOk(len) THEN len
                    ELSE
                    LET bytes == take_bytes(tail,
                                     dynamic_offset.value + EthABIWordSize,
                                     len.value)
                    IN  IF ~IsOk(bytes) THEN bytes
                        ELSE Ok(<<fixed.value, bytes.value>>)

\* ethabi::encode(&[Tuple([FixedBytes(a), FixedBytes(b)])]): a static tuple,
\* the two words in place
encode_tuple_fixed_bytes_fixed_bytes(a, b) == PadRight(a) \o PadRight(b)

\* ethabi::decode(&[Tuple([FixedBytes(32), FixedBytes(32)])], data)
decode_tuple_fixed_bytes_fixed_bytes(data) ==
    IF Len(data) = 0 THEN Err("EthABI")
    ELSE
    LET a == take_bytes(data, 0, EthABIWordSize)
    IN  IF ~IsOk(a) THEN a
        ELSE
        LET b == take_bytes(data, EthABIWordSize, EthABIWordSize)
        IN  IF ~IsOk(b) THEN b ELSE Ok(<<a.value, b.value>>)

----------------------------------------------------------------------------
(* EthABICommitmentContext and EthABITrustingPeriodContext *)

EthABICommitmentContext_encode(h, context_bytes) ==
    encode_tuple_fixed_bytes_bytes(h, context_bytes)

\* Ok([header, context_bytes]) or the ethabi error
EthABICommitmentContext_decode(bytes) ==
    LET tuple == decode_tuple_fixed_bytes_bytes(bytes)
    IN  IF ~IsOk(tuple) THEN tuple
        ELSE Ok([header |-> tuple.value[1], context_bytes |-> tuple.value[2]])

EthABITrustingPeriodContext_encode(timestamps, params) ==
    encode_tuple_fixed_bytes_fixed_bytes(timestamps, params)

\* Ok([timestamps, params]) or the ethabi error
EthABITrustingPeriodContext_decode(bytes) ==
    LET tuple == decode_tuple_fixed_bytes_fixed_bytes(bytes)
    IN  IF ~IsOk(tuple) THEN tuple
        ELSE Ok([timestamps |-> tuple.value[1], params |-> tuple.value[2]])

----------------------------------------------------------------------------
(* TrustingPeriodContext: EthABIEncoder *)

\* the two timestamps are written in the opposite order
TrustingPeriodContext_ethabi_encode_swapped(c) ==
    LET timestamps ==
            to_be_bytes(as_unix_timestamp_nanos(c.trusted_state_timestamp),
                        U128Size)
            \o to_be_bytes(as_unix_timestamp_nanos(c.untrusted_header_timestamp),
                           U128Size)
        params ==
            to_be_bytes(as_nanos(c.trusting_period), U128Size)
            \o to_be_bytes(as_nanos(c.clock_drift), U128Size)
    IN  EthABITrustingPeriodContext_encode(timestamps, params)

\* the params word is written before the timestamps word
TrustingPeriodContext_ethabi_encode_params_first(c) ==
    LET timestamps ==
            to_be_bytes(as_unix_timestamp_nanos(c.untrusted_header_timestamp),
                        U128Size)
            \o to_be_bytes(as_unix_timestamp_nanos(c.trusted_state_timestamp),
                           U128Size)
        params ==
            to_be_bytes(as_nanos(c.trusting_period), U128Size)
            \o to_be_bytes(as_nanos(c.clock_drift), U128Size)
    IN  EthABITrustingPeriodContext_encode(params, timestamps)

TrustingPeriodContext_ethabi_encode(c) ==
    LET timestamps ==
            to_be_bytes(as_unix_timestamp_nanos(c.untrusted_header_timestamp),
                        U128Size)
            \o to_be_bytes(as_unix_timestamp_nanos(c.trusted_state_timestamp),
                           U128Size)
        params ==
            to_be_bytes(as_nanos(c.trusting_period), U128Size)
            \o to_be_bytes(as_nanos(c.clock_drift), U128Size)
    IN  EthABITrustingPeriodContext_encode(timestamps, params)

\* Ok(the TrustingPeriodContext fields) or the first error
TrustingPeriodContext_ethabi_decode(data) ==
    LET c == EthABITrustingPeriodContext_decode(data)
    IN  IF ~IsOk(c) THEN c
        ELSE
        LET trusting_period ==
                nanos_to_duration(from_be_bytes(Slice(c.value.params, 0, U128Size)))
            clock_drift ==
                nanos_to_duration(
                    from_be_bytes(Slice(c.value.params, U128Size, U128Size)))
            untrusted_header_timestamp ==
                from_unix_timestamp_nanos(
                    from_be_bytes(Slice(c.value.timestamps, 0, U128Size)))
            trusted_state_timestamp ==
                from_unix_timestamp_nanos(
                    from_be_bytes(Slice(c.value.timestamps, U128Size, U128Size)))
        IN  IF ~IsOk(trusting_period) THEN trusting_period
            ELSE IF ~IsOk(clock_drift) THEN clock_drift
            ELSE IF ~IsOk(untrusted_header_timestamp)
                THEN untrusted_header_timestamp
            ELSE IF ~IsOk(trusted_state_timestamp) THEN trusted_state_timestamp
            ELSE Ok(TrustingPeriod(trusting_period.value, clock_drift.value,
                                   untrusted_header_timestamp.value,
                                   trusted_state_timestamp.value))

----------------------------------------------------------------------------
(* CommitmentContext: header and EthABIEncoder *)

\* the discriminant is written little-endian
header_little_endian(c) ==
    LET type == IF c.type = "Empty" THEN COMMITMENT_CONTEXT_TYPE_EMPTY
                ELSE COMMITMENT_CONTEXT_TYPE_WITHIN_TRUSTING_PERIOD
    IN  <<type % 256, type \div 256>>
            \o Zeros(COMMITMENT_CONTEXT_HEADER_SIZE - 2)

\* CommitmentContext::header: bytes 0-1 the type, MSB first; 2-31 reserved
header(c) ==
    LET type == IF c.type = "Empty" THEN COMMITMENT_CONTEXT_TYPE_EMPTY
                ELSE COMMITMENT_CONTEXT_TYPE_WITHIN_TRUSTING_PERIOD
    IN  to_be_bytes(type, 2) \o Zeros(COMMITMENT_CONTEXT_HEADER_SIZE - 2)

\* a strict parser: nonzero reserved bytes are rejected
parse_context_type_from_header_strict(header_bytes) ==
    IF Len(header_bytes) # COMMITMENT_CONTEXT_HEADER_SIZE
    THEN Err("InvalidCommitmentContextHeader: invalid commitment context header length")
    ELSE IF \E i \in 3..COMMITMENT_CONTEXT_HEADER_SIZE : header_bytes[i] # 0
    THEN Err("InvalidCommitmentContextHeader: reserved bytes are not zero")
    ELSE Ok(from_be_bytes(<<header_bytes[1], header_bytes[2]>>))

\* CommitmentContext::parse_context_type_from_header
parse_context_type_from_header(header_bytes) ==
    IF Len(header_bytes) # COMMITMENT_CONTEXT_HEADER_SIZE
    THEN Err("InvalidCommitmentContextHeader: invalid commitment context header length")
    ELSE Ok(from_be_bytes(<<header_bytes[1], header_bytes[2]>>))

\* CommitmentContext::ethabi_encode
ethabi_encode(c) ==
    IF c.type = "Empty"
    THEN EthABICommitmentContext_encode(header(c), <<>>)
    ELSE EthABICommitmentContext_encode(header(c),
                                        TrustingPeriodContext_ethabi_encode(c))

\* every type that is not TrustingPeriod is taken for Empty
ethabi_decode_default_empty(data) ==
    LET t == EthABICommitmentContext_decode(data)
    IN  IF ~IsOk(t) THEN t
        ELSE
        LET type == parse_context_type_from_header(t.value.header)
        IN  IF ~IsOk(type) THEN type
            ELSE IF type.value = COMMITMENT_CONTEXT_TYPE_WITHIN_TRUSTING_PERIOD
            THEN TrustingPeriodContext_ethabi_decode(t.value.context_bytes)
            ELSE Ok(Empty)

\* CommitmentContext::ethabi_decode
ethabi_decode(data) ==
    LET t == EthABICommitmentContext_decode(data)
    IN  IF ~IsOk(t) THEN t
        ELSE
        LET type == parse_context_type_from_header(t.value.header)
        IN  IF ~IsOk(type) THEN type
            ELSE IF type.value = COMMITMENT_CONTEXT_TYPE_EMPTY
            THEN IF Len(t.value.context_bytes) # 0
                 THEN Panic("assertion failed: context_bytes.is_empty()")
                 ELSE Ok(Empty)
            ELSE IF type.value = COMMITMENT_CONTEXT_TYPE_WITHIN_TRUSTING_PERIOD
            THEN TrustingPeriodContext_ethabi_decode(t.value.context_bytes)
            ELSE Err("InvalidCommitmentContextHeader: unknown commitment context type")

----------------------------------------------------------------------------
(* Inputs *)

\* timestamps and durations the callers pass, in nanoseconds: the low end,
\* the byte boundary 255/256 and the top of the representable range
TimeSamples == {0, 1, 2, MaxTime - 2, MaxTime - 1, MaxTime}
DurationSamples == {0, 1, 2, MaxTime - 1, MaxTime, MaxDuration}

TimeOf(n) == from_unix_timestamp_nanos(n).value
DurationOf(n) == nanos_to_duration(n).value

Contexts ==
    {Empty} \cup
    {TrustingPeriod(DurationOf(p), DurationOf(d), TimeOf(h), TimeOf(t)) :
        p \in DurationSamples, d \in DurationSamples,
        h \in TimeSamples, t \in TimeSamples}

\* header words received from the wire: a type in bytes 0-1 and reserved
\* bytes that are zero or not
WireTypes == {<<0, 0>>, <<0, 1>>, <<0, 2>>, <<1, 0>>, <<1, 1>>, <<255, 255>>}
WireReserved ==
    {Zeros(COMMITMENT_CONTEXT_HEADER_SIZE - 2),
     Zeros(COMMITMENT_CONTEXT_HEADER_SIZE - 3) \o <<1>>,
     <<255>> \o Zeros(COMMITMENT_CONTEXT_HEADER_SIZE - 3)}
WireHeaders == {t \o r : t \in WireTypes, r \in WireReserved}

SampleBody ==
    TrustingPeriodContext_ethabi_encode(
        TrustingPeriod(DurationOf(MaxDuration), DurationOf(2),
                       TimeOf(MaxTime - 1), TimeOf(1)))

\* context bodies received from the wire
WireBodies ==
    {<<>>, <<1>>, Zeros(EthABIWordSize),
     SampleBody,
     Zeros(2 * EthABIWordSize),
     Slice(SampleBody, 0, 2 * EthABIWordSize - 1),
     SampleBody \o <<7>>,
     SampleBody \o Zeros(EthABIWordSize),
     to_be_bytes(MaxTime + 1, U128Size) \o Zeros(3 * U128Size),
     <<1>> \o Zeros(4 * U128Size - 1)}

\* byte strings that are no tuple the encoder writes
WireMalformed ==
    {<<>>, <<1, 2, 3>>, Zeros(EthABIWordSize),
     Slice(EthABICommitmentContext_encode(Zeros(EthABIWordSize), <<>>),
           0, 3 * EthABIWordSize),
     EthABICommitmentContext_encode(Zeros(EthABIWordSize), <<>>) \o <<9>>,
     <<1>> \o Zeros(4 * EthABIWordSize - 1)}

WireInputs ==
    {EthABICommitmentContext_encode(h, b) : h \in WireHeaders, b \in WireBodies}
        \cup WireMalformed

----------------------------------------------------------------------------
(* modules/ibc-client: ClientState, ConsensusState, Header and LCPClient   *)

\* Option<T>
None == [some |-> FALSE]
Some(x) == [some |-> TRUE, v |-> x]

\* largest revision_height explored in revision 0
MaxRevisionHeight == 2

\* most create_client and update_client calls made for the client ID
MaxCalls == 3

\* the heights of revision 0 and the first height of revision 1
Heights ==
    {[revision_number |-> 0, revision_height |-> h] : h \in 1..MaxRevisionHeight}
        \cup {[revision_number |-> 1, revision_height |-> 1]}

\* Height::default()
ZeroHeight == [revision_number |-> 0, revision_height |-> 0]

\* PartialOrd of Height: a < b, by revision_number, then revision_height
HeightLT(a, b) ==
    \/ a.revision_number < b.revision_number
    \/ /\ a.revision_number = b.revision_number
       /\ a.revision_height < b.revision_height

\* the greatest height of a non-empty set
MaxHeightOf(S) == CHOOSE a \in S : \A b \in S : ~HeightLT(a, b)

LCP_CLIENT_TYPE == "0000-lcp"
LCP_CLIENT_STATE_TYPE_URL == "/ibc.lightclients.lcp.v1.ClientState"
LCP_CONSENSUS_STATE_TYPE_URL == "/ibc.lightclients.lcp.v1.ConsensusState"
LCP_HEADER_TYPE_URL == "/ibc.lightclients.lcp.v1.UpdateClientHeader"

\* Any { type_url, value }: value is the message the bytes decode to, if any
ProtoAny(type_url, decodable, message) ==
    [type_url |-> type_url, decodable |-> decodable, message |-> message]

\* Duration::from_secs and Duration::as_secs
from_secs(secs) == [secs |-> secs, nanos |-> 0]
as_secs(duration) == duration.secs

\* impl From<ClientState> for RawClientState
RawClientState_from(value) ==
    [latest_height |-> Some(value.latest_height),
     mrenclave |-> value.mr_enclave,
     key_expiration |-> as_secs(value.key_expiration),
     allowed_quote_statuses |-> {},
     allowed_advisory_ids |-> {}]

\* impl TryFrom<RawClientState> for ClientState
ClientState_try_from_raw(raw) ==
    IF ~raw.latest_height.some
    THEN Panic("called Option::unwrap() on a None value")
    ELSE Ok([latest_height |-> raw.latest_height.v,
             mr_enclave |-> raw.mrenclave,
             key_expiration |-> from_secs(raw.key_expiration)])

\* impl TryFrom<Any> for ClientState
ClientState_try_from(any) ==
    IF any.type_url = LCP_CLIENT_STATE_TYPE_URL
    THEN IF ~any.decodable
         THEN Panic("called Result::unwrap() on an Err value")
         ELSE ClientState_try_from_raw(any.message)
    ELSE Err("UnexpectedClientType")

\* impl From<ClientState> for Any
ClientState_into_any(value) ==
    ProtoAny(LCP_CLIENT_STATE_TYPE_URL, TRUE, RawClientState_from(value))

\* impl TryFrom<Any> for ConsensusState
ConsensusState_try_from(any) ==
    IF any.type_url = LCP_CONSENSUS_STATE_TYPE_URL THEN Ok(any.message)
    ELSE Err("UnexpectedClientType")

\* Any::from_any(consensus_state)
ConsensusState_into_any(value) ==
    ProtoAny(LCP_CONSENSUS_STATE_TYPE_URL, TRUE, value)

\* impl TryFrom<Any> for Header
Header_try_from(any) ==
    IF any.type_url = LCP_HEADER_TYPE_URL THEN Ok(any.message)
    ELSE Err("UnexpectedHeaderType")

\* the header's height is taken whatever the current height is
with_header_overwrite(client_state, h) ==
    [client_state EXCEPT !.latest_height = h.height]

\* the comparison is reversed: the lower height is kept
with_header_reversed(client_state, h) ==
    IF HeightLT(h.height, client_state.latest_height)
    THEN [client_state EXCEPT !.latest_height = h.height]
    ELSE client_state

\* the update also resets key_expiration
with_header_resetting_expiration(client_state, h) ==
    [client_state EXCEPT
        !.latest_height = IF HeightLT(@, h.height) THEN h.height ELSE @,
        !.key_expiration = from_secs(0)]

\* ClientState::with_header
with_header(client_state, h) ==
    IF HeightLT(client_state.latest_height, h.height)
    THEN [client_state EXCEPT !.latest_height = h.height]
    ELSE client_state

\* the enclave keys registered with the client
EnclaveKeys == {"k1"}

\* client_state.contains(&signer)
contains(client_state, signer) == signer \in EnclaveKeys

\* the host store of the client ID: its client_type, its client state and
\* its consensus states by height
Host(client_type, client_state, consensus_states) ==
    [client_type |-> client_type, client_state |-> client_state,
     consensus_states |-> consensus_states]

\* ctx.client_type(&client_id)
host_client_type(host) ==
    IF host.client_type.some THEN Ok(host.client_type.v)
    ELSE Err("ClientNotFound")

\* ctx.client_state(&client_id)
host_client_state(host) ==
    IF host.client_state.some THEN Ok(host.client_state.v)
    ELSE Err("ClientNotFound")

\* ctx.consensus_state(&client_id, height): the stored state, or an error
host_consensus_state(host, height) ==
    IF host.consensus_states[height].some
    THEN Ok(host.consensus_states[height].v.message)
    ELSE Err("ConsensusStateNotFound")

\* the signer and the signature are not checked
check_header_and_update_state_unsigned(host, client_state, h) ==
    IF ~(h.prev_height.some /\ h.prev_state_id.some)
    THEN Panic("assertion failed: prev_height and prev_state_id")
    ELSE
    LET prev_consensus_state == host_consensus_state(host, h.prev_height.v)
    IN  IF ~IsOk(prev_consensus_state) THEN prev_consensus_state
        ELSE IF prev_consensus_state.value.state_id # h.prev_state_id.v
        THEN Panic("assertion failed: prev_state_id")
        ELSE Ok([client_state |-> with_header(client_state, h),
                 consensus_state |-> [state_id |-> h.state_id,
                                      timestamp |-> h.timestamp]])

\* LCPClient::check_header_and_update_state: h.recovered is what
\* verify_signature(commitment_bytes, signature) returns for the header
check_header_and_update_state(host, client_state, h) ==
    IF ~(h.prev_height.some /\ h.prev_state_id.some)
    THEN Panic("assertion failed: prev_height and prev_state_id")
    ELSE
    LET prev_consensus_state == host_consensus_state(host, h.prev_height.v)
    IN  IF ~IsOk(prev_consensus_state) THEN prev_consensus_state
        ELSE IF prev_consensus_state.value.state_id # h.prev_state_id.v
        THEN Panic("assertion failed: prev_state_id")
        ELSE IF ~contains(client_state, h.signer)
        THEN Panic("assertion failed: client_state.contains(signer)")
        ELSE IF h.recovered = "invalid"
        THEN Panic("called Result::unwrap() on an Err value")
        ELSE IF h.signer # h.recovered
        THEN Panic("assertion failed: header.signer() == signer")
        ELSE Ok([client_state |-> with_header(client_state, h),
                 consensus_state |-> [state_id |-> h.state_id,
                                      timestamp |-> h.timestamp]])

\* UpdateClientCommitment::default(): every Option field is None
DefaultUpdateClientCommitment ==
    [prev_state_id |-> None, new_state_id |-> <<>>, new_state |-> None,
     prev_height |-> None, new_height |-> ZeroHeight,
     timestamp |-> 0, validation_params |-> Empty]

\* gen_state_id_from_any(client_state, consensus_state): a hash of both,
\* or an error
gen_state_id_from_any(any_client_state, any_consensus_state, hashed) ==
    IF hashed THEN Ok(<<any_client_state, any_consensus_state>>)
    ELSE Err("Commitment")

\* LCPClient::initialise(&client_state, &consensus_state)
initialise(client_state, consensus_state, initialised) ==
    IF initialised THEN Ok(<<>>) ELSE Err("ICS02")

\* LCPLightClient::create_client
create_client(any_client_state, any_consensus_state, hashed, initialised) ==
    LET state_id ==
            gen_state_id_from_any(any_client_state, any_consensus_state, hashed)
        client_state == ClientState_try_from(any_client_state)
        consensus_state == ConsensusState_try_from(any_consensus_state)
    IN  IF ~IsOk(state_id) THEN state_id
        ELSE IF ~IsOk(client_state) THEN client_state
        ELSE IF ~IsOk(consensus_state) THEN consensus_state
        ELSE
        LET height == client_state.value.latest_height
            timestamp == consensus_state.value.timestamp
            initialised_ ==
                initialise(client_state.value, consensus_state.value,
                           initialised)
        IN  IF ~IsOk(initialised_) THEN initialised_
            ELSE Ok([height |-> height,
                     commitment |->
                         [prev_state_id |-> None,
                          new_state_id |-> state_id.value,
                          new_state |->
                              Some(ClientState_into_any(client_state.value)),
                          prev_height |-> None,
                          new_height |-> height,
                          timestamp |-> timestamp,
                          validation_params |-> Empty],
                     prove |-> FALSE])

\* LCPLightClient::update_client, reading the host store
update_client(host, any_header) ==
    LET decoded_header == Header_try_from(any_header)
    IN  IF ~IsOk(decoded_header) THEN decoded_header
        ELSE
        LET client_type == host_client_type(host)
        IN  IF ~IsOk(client_type) THEN client_type
            ELSE IF client_type.value # LCP_CLIENT_TYPE
            THEN Panic("assertion failed: client_type.eq(LCP_CLIENT_TYPE)")
            ELSE
            LET any_client_state == host_client_state(host)
            IN  IF ~IsOk(any_client_state) THEN any_client_state
                ELSE
                LET client_state == ClientState_try_from(any_client_state.value)
                    height == IF decoded_header.value.get_height.some
                              THEN decoded_header.value.get_height.v ELSE ZeroHeight
                IN  IF ~IsOk(client_state) THEN client_state
                    ELSE IF ~decoded_header.value.get_timestamp.some
                    THEN Panic("called Option::unwrap() on a None value")
                    ELSE
                    LET r == check_header_and_update_state(
                                 host, client_state.value, decoded_header.value)
                    IN  IF ~IsOk(r) THEN r
                        ELSE Ok([new_any_client_state |->
                                     ClientState_into_any(r.value.client_state),
                                 new_any_consensus_state |->
                                     ConsensusState_into_any(
                                         r.value.consensus_state),
                                 height |-> height,
                                 commitment |-> DefaultUpdateClientCommitment,
                                 prove |-> FALSE])

----------------------------------------------------------------------------
(* Inputs of the client: the states a client is created with and the       *)
(* headers submitted to update it                                          *)

\* the callers that make calls for the client ID
Procs == {"p1", "p2"}

\* the heights a consensus state can be stored at
StoreHeights == Heights \cup {ZeroHeight}

\* the state_id and the timestamp committed for a height
StateIDOf(h) == <<"state", h.revision_number, h.revision_height>>
TimestampOf(h) == h.revision_number * (MaxRevisionHeight + 1) + h.revision_height

InitialClientState(h) ==
    [latest_height |-> h, mr_enclave |-> "mrenclave",
     key_expiration |-> from_secs(60)]
InitialConsensusState(h) ==
    [state_id |-> StateIDOf(h), timestamp |-> TimestampOf(h)]

\* a client state of another light client
ForeignClientState ==
    ProtoAny("/ibc.lightclients.tendermint.v1.ClientState", TRUE, <<>>)

\* the client states create_client is called with: LCP client states, one
\* that allows a quote status, one of another type, one whose bytes do not
\* decode and one without latest_height
AnyClientStates ==
    {ClientState_into_any(InitialClientState(h)) : h \in Heights}
        \cup {ProtoAny(LCP_CLIENT_STATE_TYPE_URL, TRUE,
                  [RawClientState_from(InitialClientState(h)) EXCEPT
                      !.allowed_quote_statuses = {"SW_HARDENING_NEEDED"}]) :
              h \in {MaxHeightOf(Heights)}}
        \cup {ForeignClientState,
              ProtoAny(LCP_CLIENT_STATE_TYPE_URL, FALSE, <<>>),
              ProtoAny(LCP_CLIENT_STATE_TYPE_URL, TRUE,
                  [RawClientState_from(InitialClientState(ZeroHeight)) EXCEPT
                      !.latest_height = None])}

\* the consensus state passed along a client state: the one of its height,
\* or one of another type
AnyConsensusStatesFor(any_client_state) ==
    LET h == IF any_client_state.type_url = LCP_CLIENT_STATE_TYPE_URL
                  /\ any_client_state.decodable
                  /\ any_client_state.message.latest_height.some
             THEN any_client_state.message.latest_height.v
             ELSE ZeroHeight
    IN  {ConsensusState_into_any(InitialConsensusState(h)),
         ProtoAny("/ibc.lightclients.tendermint.v1.ConsensusState", TRUE,
             InitialConsensusState(h))}

\* a header for a height on top of the state committed at height prev,
\* signed by a registered enclave key
HeaderAt(height, prev) ==
    [height |-> height,
     get_height |-> Some(height),
     state_id |-> StateIDOf(height),
     timestamp |-> TimestampOf(height),
     get_timestamp |-> Some(TimestampOf(height)),
     prev_height |-> Some(prev),
     prev_state_id |-> Some(StateIDOf(prev)),
     signer |-> "k1",
     recovered |-> "k1"]

WellFormedHeaders == {HeaderAt(h, prev) : h \in Heights, prev \in Heights}

\* headers that miss a field, name another previous state, or are signed
\* by an unregistered key, by another key than the one named, or not validly
BrokenHeaders ==
    UNION {
        {[HeaderAt(h, h) EXCEPT !.prev_height = None],
         [HeaderAt(h, h) EXCEPT !.prev_state_id = None],
         [HeaderAt(h, h) EXCEPT !.prev_height = None, !.prev_state_id = None],
         [HeaderAt(h, h) EXCEPT !.prev_state_id = Some(<<"other">>)],
         [HeaderAt(h, h) EXCEPT !.signer = "k2", !.recovered = "k2"],
         [HeaderAt(h, h) EXCEPT !.recovered = "k2"],
         [HeaderAt(h, h) EXCEPT !.recovered = "invalid"],
         [HeaderAt(h, h) EXCEPT !.get_timestamp = None],
         [HeaderAt(h, h) EXCEPT !.get_height = None]} : h \in Heights}

\* headers signed by a registered key that commit to another state and
\* timestamp for their height
ForkHeaders ==
    {[HeaderAt(h, h) EXCEPT !.state_id = <<"fork", h.revision_number,
                                           h.revision_height>>,
                            !.timestamp = TimestampOf(h) + 100,
                            !.get_timestamp = Some(TimestampOf(h) + 100)] :
        h \in Heights}

Headers == WellFormedHeaders \cup BrokenHeaders \cup ForkHeaders

\* the any_header values update_client is called with: LCP headers, and a
\* well-formed header under another type
AnyHeaders ==
    {ProtoAny(LCP_HEADER_TYPE_URL, TRUE, h) : h \in Headers}
        \cup {ProtoAny("/ibc.lightclients.tendermint.v1.Header", TRUE, h) :
              h \in {HeaderAt(MaxHeightOf(Heights), MaxHeightOf(Heights))}}

NoCall == [call |-> "none", header |-> None, ret |-> Ok(<<>>)]

\* no client exists and no call is in flight
ClientStart(oneAtATime) ==
    /\ client_type_store = None
    /\ client_store = None
    /\ consensus_store = [h \in StoreHeights |-> None]
    /\ pending = [p \in Procs |-> None]
    /\ last = NoCall
    /\ serialized = oneAtATime
    /\ created_height = None
    /\ applied = <<>>
    /\ high_water = None
    /\ calls = 0

ClientIdle == ClientStart(TRUE)

----------------------------------------------------------------------------
(* modules/handler: verify_client, verify_client_consensus,                *)
(* verify_connection, verify_channel                                       *)

VerifyKinds ==
    {"VerifyClient", "VerifyClientConsensus", "VerifyConnection",
     "VerifyChannel"}

\* the client IDs a light client is registered for, and the ones requested
RegisteredClients == {"c1", "c2", "c3"}
ClientIds == RegisteredClients \cup {"c4", "c5"}

Requests == [kind : VerifyKinds, client_id : ClientIds]

\* get_light_client_by_client_id(ctx, &client_id)
get_light_client_by_client_id(client_id) ==
    IF client_id \in RegisteredClients THEN Ok(client_id)
    ELSE Err("ClientNotFound")

\* errors are dropped and the call goes on
propagate_ignoring_error(r, next) == next

\* the ? operator: where the call is after a step that returned r
propagate(r, next) == IF IsOk(r) THEN next ELSE "failed"

\* lc.verify_client(..), lc.verify_client_consensus(..), lc.verify_connection(..)
\* or lc.verify_channel(..) of the resolved light client: its state_commitment
verify_state(kind, client_id, verified) ==
    IF verified THEN Ok(<<"state_commitment", kind, client_id>>)
    ELSE Err("VerificationFailed")

\* prove_state_commitment(ek, res.state_commitment)
prove_state_commitment(ek, state_commitment, signed) ==
    IF signed THEN Ok([commitment |-> state_commitment, signer |-> ek])
    ELSE Err("ProveFailed")

\* LightClientResult::VerifyClient(VerifyClientResult(proof)) and the like
LightClientResult(kind, proof) == [variant |-> kind, proof |-> proof]

DispatchOrder == <<"get_enclave_key", "resolve", "delegate", "prove", "respond">>

NoResponse == [kind |-> "None", value |-> <<>>, err |-> ""]

DispatchIdle ==
    /\ request = [kind |-> "none", client_id |-> "none"]
    /\ pc = "idle"
    /\ steps = <<>>
    /\ response = NoResponse

----------------------------------------------------------------------------
(* The state machine: a caller holds a context and a byte string and       *)
(* applies the operations of the module to them.                           *)

NoResult == [kind |-> "None", value |-> <<>>, err |-> ""]

Init ==
    /\ ClientIdle
    /\ DispatchIdle
    /\ now = TimeOf(0)
    /\ op = "init"
    /\ result = NoResult
    /\ \/ /\ ctx \in Contexts
          /\ bz = <<>>
          /\ wire = "none"
       \/ /\ ctx = Empty
          /\ bz \in WireInputs
          /\ wire = "received"

\* ctx.validate(current_timestamp)
Validate(t) ==
    /\ now' = t
    /\ result' = validate(ctx, t)
    /\ op' = "validate"
    /\ UNCHANGED <<ctx, bz, wire>>
    /\ UNCHANGED <<clientVars, dispatchVars>>

\* ctx.header(), then parse_context_type_from_header(&header)
Header ==
    /\ bz' = header(ctx)
    /\ wire' = "header"
    /\ result' = parse_context_type_from_header(header(ctx))
    /\ op' = "header"
    /\ UNCHANGED <<ctx, now>>
    /\ UNCHANGED <<clientVars, dispatchVars>>

\* ctx.clone().ethabi_encode()
Encode ==
    /\ bz' = ethabi_encode(ctx)
    /\ wire' = "encoded"
    /\ result' = NoResult
    /\ op' = "encode"
    /\ UNCHANGED <<ctx, now>>
    /\ UNCHANGED <<clientVars, dispatchVars>>

\* CommitmentContext::ethabi_decode(&bz)
Decode ==
    /\ wire \in {"encoded", "received"}
    /\ result' = ethabi_decode(bz)
    /\ op' = "decode"
    /\ UNCHANGED <<ctx, now, bz, wire>>
    /\ UNCHANGED <<clientVars, dispatchVars>>

Next ==
    \/ \E n \in TimeSamples : Validate(TimeOf(n))
    \/ Header
    \/ Encode
    \/ Decode

Spec == Init /\ [][Next]_vars

----------------------------------------------------------------------------
(* Vocabulary of the properties *)

Validated == op = "validate" /\ ctx.type = "TrustingPeriod"
NowNs == AsNanos(now)
TrustedNs == AsNanos(ctx.trusted_state_timestamp)
UntrustedNs == AsNanos(ctx.untrusted_header_timestamp)
PeriodNs == AsNanos(ctx.trusting_period)
DriftNs == AsNanos(ctx.clock_drift)
Failed(e) == result.kind = "Err" /\ result.err = e
Succeeded == result.kind = "Ok"

\* the received bytes are laid out as the encoder lays a tuple out: the
\* tuple at offset 32, its bytes field at offset 64 of the tuple
CanonicalLayout(data) ==
    /\ peek_usize(data, 0) = Ok(EthABIWordSize)
    /\ peek_usize(data, 2 * EthABIWordSize) = Ok(2 * EthABIWordSize)
    /\ IsOk(EthABICommitmentContext_decode(data))

WireHeader(data) == EthABICommitmentContext_decode(data).value.header
WireBody(data) == EthABICommitmentContext_decode(data).value.context_bytes
\* the type in bytes 0-1 of the header word, MSB first
WireType(data) == WireHeader(data)[1] * 256 + WireHeader(data)[2]

\* data with bytes 2-31 of its header word replaced by r
WithReserved(data, r) ==
    Slice(data, 0, EthABIWordSize + 2)
        \o r
        \o Slice(data, 2 * EthABIWordSize, Len(data) - 2 * EthABIWordSize)

----------------------------------------------------------------------------
(* C1: decoding the encoding of a context succeeds and returns a context   *)
(* equal to the one encoded, for Empty and for every TrustingPeriod        *)
(* context whose fields are in the representable range.                    *)
C1_RoundTrip ==
    (op = "decode" /\ wire = "encoded") =>
        (Succeeded /\ result.value = ctx)

C1_Witness ==
    /\ op = "decode"
    /\ wire = "encoded"
    /\ ctx.type = "TrustingPeriod"
    /\ UntrustedNs = MaxTime
    /\ TrustedNs = 1
    /\ PeriodNs = MaxDuration
    /\ DriftNs = 2
    /\ Succeeded

(* C2: validate fails with OutOfTrustingPeriod exactly when                *)
(* trusted_state_timestamp + trusting_period is not strictly greater than  *)
(* current_timestamp; at current = T+P it fails so, and at current =       *)
(* T+P-1 the check passes, so validate succeeds when the header check      *)
(* passes too.                                                             *)
C2_WithinTrustPeriodStrict ==
    Validated =>
        /\ Failed("OutOfTrustingPeriod") <=> ~(TrustedNs + PeriodNs > NowNs)
        /\ NowNs = TrustedNs + PeriodNs => Failed("OutOfTrustingPeriod")
        /\ (NowNs = TrustedNs + PeriodNs - 1 /\ TrustedNs + PeriodNs <= MaxTime)
               => /\ ~Failed("OutOfTrustingPeriod")
                  /\ (NowNs + DriftNs <= MaxTime /\ NowNs + DriftNs > UntrustedNs)
                         => Succeeded

C2_Witness ==
    /\ Validated
    /\ PeriodNs >= 1
    /\ NowNs = TrustedNs + PeriodNs
    /\ NowNs + DriftNs > UntrustedNs
    /\ Failed("OutOfTrustingPeriod")

(* C3, as stated: whenever untrusted_header_timestamp = current + drift,   *)
(* validate fails with HeaderFromFuture.                                   *)
C3_Original ==
    (Validated /\ UntrustedNs = NowNs + DriftNs) => Failed("HeaderFromFuture")

(* C3, amended: provided the within-trust-period check passed and         *)
(* current_timestamp + clock_drift is representable, validate succeeds    *)
(* exactly when that sum is strictly greater than                         *)
(* untrusted_header_timestamp and fails with HeaderFromFuture otherwise:  *)
(* at header = N+D it fails so, at header = N+D-1 it succeeds.  When the   *)
(* sum is not representable validate returns the time error; when the     *)
(* trust-period check fails validate returns that check's error, never    *)
(* HeaderFromFuture.                                                       *)
C3_HeaderFromPastStrict ==
    Validated =>
        LET trusted == TrustedNs + PeriodNs <= MaxTime
                           /\ TrustedNs + PeriodNs > NowNs
            drifted == NowNs + DriftNs <= MaxTime
        IN  /\ Failed("HeaderFromFuture")
                   <=> (trusted /\ drifted /\ ~(NowNs + DriftNs > UntrustedNs))
            /\ (trusted /\ drifted)
                   => (Succeeded <=> NowNs + DriftNs > UntrustedNs)
            /\ (trusted /\ drifted /\ UntrustedNs = NowNs + DriftNs)
                   => Failed("HeaderFromFuture")
            /\ (trusted /\ drifted /\ UntrustedNs = NowNs + DriftNs - 1)
                   => Succeeded
            /\ (trusted /\ ~drifted) => Failed("Time")
            /\ ~trusted => (Failed("OutOfTrustingPeriod") \/ Failed("Time"))

C3_Witness ==
    /\ Validated
    /\ TrustedNs + PeriodNs <= MaxTime
    /\ TrustedNs + PeriodNs > NowNs
    /\ DriftNs >= 1
    /\ UntrustedNs = NowNs + DriftNs
    /\ Failed("HeaderFromFuture")

(* C4: when neither sum overflows, validate returns Ok exactly when both   *)
(* checks pass; with the three timestamps equal and trusting_period and    *)
(* clock_drift at least 1ns it returns Ok.                                 *)
C4_OkIffBothChecks ==
    (Validated /\ TrustedNs + PeriodNs <= MaxTime /\ NowNs + DriftNs <= MaxTime)
        => /\ Succeeded <=> (TrustedNs + PeriodNs > NowNs
                                /\ NowNs + DriftNs > UntrustedNs)
           /\ (NowNs = TrustedNs /\ NowNs = UntrustedNs
                   /\ PeriodNs >= 1 /\ DriftNs >= 1) => Succeeded

C4_Witness ==
    /\ Validated
    /\ NowNs = TrustedNs
    /\ NowNs = UntrustedNs
    /\ PeriodNs = 1
    /\ DriftNs = 1
    /\ Succeeded

(* C5: validate of the Empty context returns Ok for every                  *)
(* current_timestamp.                                                      *)
C5_EmptyAlwaysValid ==
    (op = "validate" /\ ctx = Empty) => Succeeded

C5_Witness ==
    /\ op = "validate"
    /\ ctx = Empty
    /\ NowNs = MaxTime
    /\ Succeeded

(* C6, as stated: whenever one of the two sums exceeds the representable   *)
(* range, validate returns an error that is neither OutOfTrustingPeriod    *)
(* nor HeaderFromFuture.                                                   *)
C6_Original ==
    (Validated /\ (TrustedNs + PeriodNs > MaxTime \/ NowNs + DriftNs > MaxTime))
        => /\ result.kind = "Err"
           /\ result.err \notin {"OutOfTrustingPeriod", "HeaderFromFuture"}

(* C6, amended: a sum that validate computes and that exceeds the          *)
(* representable range makes validate return the time error, which is      *)
(* neither policy error: that is the trust-period sum always, and the      *)
(* clock-drift sum when the trust-period check passed.  No overflowing     *)
(* sum ever lets validate return Ok.                                       *)
C6_OverflowIsTimeError ==
    Validated =>
        /\ TrustedNs + PeriodNs > MaxTime => Failed("Time")
        /\ (TrustedNs + PeriodNs <= MaxTime /\ TrustedNs + PeriodNs > NowNs
                /\ NowNs + DriftNs > MaxTime) => Failed("Time")
        /\ (TrustedNs + PeriodNs > MaxTime \/ NowNs + DriftNs > MaxTime)
               => ~Succeeded
        /\ Failed("Time")
               => (TrustedNs + PeriodNs > MaxTime \/ NowNs + DriftNs > MaxTime)

C6_Witness ==
    /\ Validated
    /\ TrustedNs + PeriodNs > MaxTime
    /\ (TrustedNs + PeriodNs) % (MaxTime + 1) > NowNs
    /\ NowNs + DriftNs > UntrustedNs
    /\ Failed("Time")

(* C7: decoding a well-formed tuple whose header type is 2 or more fails   *)
(* with the unknown-type error whatever the body; it yields no context.    *)
C7_UnknownTypeRejected ==
    (op = "decode" /\ IsOk(EthABICommitmentContext_decode(bz))
        /\ WireType(bz) > COMMITMENT_CONTEXT_TYPE_WITHIN_TRUSTING_PERIOD)
        => Failed("InvalidCommitmentContextHeader: unknown commitment context type")

C7_Witness ==
    /\ op = "decode"
    /\ wire = "received"
    /\ CanonicalLayout(bz)
    /\ WireType(bz) = 256
    /\ WireBody(bz) = SampleBody
    /\ Failed("InvalidCommitmentContextHeader: unknown commitment context type")

(* C8: decoding a tuple whose header type is 0 (Empty) and whose body is   *)
(* not empty returns a decode error to the caller.                         *)
C8_NonEmptyBodyIsError ==
    (op = "decode" /\ IsOk(EthABICommitmentContext_decode(bz))
        /\ WireType(bz) = COMMITMENT_CONTEXT_TYPE_EMPTY
        /\ Len(WireBody(bz)) > 0)
        => result.kind = "Err"

(* C9: header returns 32 bytes, bytes 0-1 the type MSB first (0 for Empty, *)
(* 1 for TrustingPeriod whatever its fields), bytes 2-31 zero, and         *)
(* parse_context_type_from_header of it returns that type.                 *)
C9_HeaderLayout ==
    op = "header" =>
        LET type == IF ctx = Empty THEN 0 ELSE 1
        IN  /\ Len(bz) = 32
            /\ bz[1] = 0
            /\ bz[2] = type
            /\ \A i \in 3..32 : bz[i] = 0
            /\ Succeeded
            /\ result.value = type

C9_Witness ==
    /\ op = "header"
    /\ ctx.type = "TrustingPeriod"
    /\ PeriodNs = MaxDuration
    /\ UntrustedNs = MaxTime
    /\ bz[2] = 1
    /\ Succeeded

(* C10: the outcome of decoding does not depend on bytes 2-31 of the       *)
(* header word: replacing them, in a tuple laid out as the encoder lays it *)
(* out, by any other reserved bytes gives the same value or the same       *)
(* error, so nonzero reserved bytes are not rejected.                      *)
C10_ReservedBytesIgnored ==
    (op = "decode" /\ CanonicalLayout(bz)) =>
        \A r \in WireReserved : ethabi_decode(WithReserved(bz, r)) = result

C10_Witness ==
    /\ op = "decode"
    /\ wire = "received"
    /\ CanonicalLayout(bz)
    /\ WireHeader(bz)[COMMITMENT_CONTEXT_HEADER_SIZE] = 1
    /\ WireType(bz) = COMMITMENT_CONTEXT_TYPE_WITHIN_TRUSTING_PERIOD
    /\ Succeeded
    /\ result.value.type = "TrustingPeriod"

----------------------------------------------------------------------------
\* the u128 written MSB first in the 16 bytes at a 0-based offset of a body,
\* for values below 65536; -1 when a higher byte is set
WireU128(body, offset) ==
    IF \E i \in 1..(U128Size - 2) : body[offset + i] # 0 THEN -1
    ELSE body[offset + U128Size - 1] * 256 + body[offset + U128Size]

(* C11: the body of an encoded TrustingPeriod context is exactly two       *)
(* 32-byte words: bytes 0-15 untrusted_header_timestamp, 16-31             *)
(* trusted_state_timestamp, 32-47 trusting_period, 48-63 clock_drift, each *)
(* big-endian 128-bit nanoseconds; decoding reads the four fields from the *)
(* same positions.                                                         *)
C11_BodyLayout ==
    /\ (op = "encode" /\ ctx.type = "TrustingPeriod") =>
           /\ IsOk(EthABICommitmentContext_decode(bz))
           /\ Len(WireBody(bz)) = 64
           /\ WireU128(WireBody(bz), 0) = UntrustedNs
           /\ WireU128(WireBody(bz), 16) = TrustedNs
           /\ WireU128(WireBody(bz), 32) = PeriodNs
           /\ WireU128(WireBody(bz), 48) = DriftNs
    /\ (op = "decode" /\ Succeeded /\ result.value.type = "TrustingPeriod") =>
           /\ AsNanos(result.value.untrusted_header_timestamp)
                  = WireU128(WireBody(bz), 0)
           /\ AsNanos(result.value.trusted_state_timestamp)
                  = WireU128(WireBody(bz), 16)
           /\ AsNanos(result.value.trusting_period)
                  = WireU128(WireBody(bz), 32)
           /\ AsNanos(result.value.clock_drift) = WireU128(WireBody(bz), 48)

C11_Witness ==
    /\ op = "encode"
    /\ ctx.type = "TrustingPeriod"
    /\ UntrustedNs = MaxTime - 1
    /\ TrustedNs = 1
    /\ PeriodNs = MaxDuration
    /\ DriftNs = 2
    /\ Len(WireBody(bz)) = 64

(* C12: decoding a context of type 1 (TrustingPeriod) whose body is not    *)
(* exactly two 32-byte words, shorter than 64 bytes or 64 bytes followed   *)
(* by more, fails with a decode error.                                     *)
C12_BodyLengthExact ==
    (op = "decode" /\ IsOk(EthABICommitmentContext_decode(bz))
        /\ WireType(bz) = COMMITMENT_CONTEXT_TYPE_WITHIN_TRUSTING_PERIOD
        /\ Len(WireBody(bz)) # 64)
        => result.kind = "Err"

(* C13: every timestamp and duration in the output of ethabi_encode is a   *)
(* whole number of seconds, whatever sub-second nanoseconds the context    *)
(* was constructed with.                                                   *)
C13_WholeSecondsOnWire ==
    (op = "encode" /\ ctx.type = "TrustingPeriod") =>
        \A offset \in {0, 16, 32, 48} :
            WireU128(WireBody(bz), offset) % NanosPerSecond = 0

(* C19: when both checks would fail for the same current_timestamp,        *)
(* validate reports OutOfTrustingPeriod, not HeaderFromFuture.             *)
C19_TrustPeriodCheckedFirst ==
    (Validated /\ ~(TrustedNs + PeriodNs > NowNs)
        /\ ~(NowNs + DriftNs > UntrustedNs))
        => Failed("OutOfTrustingPeriod")

C19_Witness ==
    /\ Validated
    /\ TrustedNs + PeriodNs = NowNs
    /\ NowNs + DriftNs = UntrustedNs
    /\ DriftNs >= 1
    /\ PeriodNs >= 1
    /\ Failed("OutOfTrustingPeriod")

----------------------------------------------------------------------------
(* The client and its host store: callers create a client and submit       *)
(* headers with update_client, and the host persists what they return.     *)

InitClient ==
    /\ \E b \in BOOLEAN : ClientStart(b)
    /\ DispatchIdle
    /\ ctx = Empty
    /\ now = TimeOf(0)
    /\ bz = <<>>
    /\ wire = "none"
    /\ op = "init"
    /\ result = NoResult

HostStore == Host(client_type_store, client_store, consensus_store)

\* create_client(ctx, any_client_state, any_consensus_state) called by p: it
\* does not read the store and what it returns is not persisted yet
CreateClient(p, any_client_state, any_consensus_state, hashed, initialised) ==
    /\ calls < MaxCalls
    /\ ~pending[p].some
    /\ serialized => \A q \in Procs : ~pending[q].some
    /\ calls' = calls + 1
    /\ LET r == create_client(any_client_state, any_consensus_state, hashed,
                              initialised)
       IN  /\ last' = [call |-> "create_client", header |-> None, ret |-> r]
           /\ pending' =
                  IF IsOk(r)
                  THEN [pending EXCEPT ![p] =
                           Some([call |-> "create_client",
                                 result |-> r.value,
                                 any_client_state |-> any_client_state,
                                 any_consensus_state |-> any_consensus_state])]
                  ELSE pending
    /\ UNCHANGED <<client_type_store, client_store, consensus_store,
                   serialized, created_height, applied, high_water>>
    /\ UNCHANGED <<contextVars, dispatchVars>>

\* update_client(ctx, client_id, any_header) called by p: reads the store
\* and returns the new states, which are not persisted yet
UpdateClient(p, any_header) ==
    /\ calls < MaxCalls
    /\ ~pending[p].some
    /\ serialized => \A q \in Procs : ~pending[q].some
    /\ calls' = calls + 1
    /\ LET r == update_client(HostStore, any_header)
       IN  /\ last' = [call |-> "update_client", header |-> Some(any_header),
                       ret |-> r]
           /\ pending' =
                  IF IsOk(r)
                  THEN [pending EXCEPT ![p] =
                           Some([call |-> "update_client",
                                 result |-> r.value,
                                 header_height |-> any_header.message.height])]
                  ELSE pending
    /\ UNCHANGED <<client_type_store, client_store, consensus_store,
                   serialized, created_height, applied, high_water>>
    /\ UNCHANGED <<contextVars, dispatchVars>>

\* the host persists the client create_client returned to p under the
\* client ID, with the client_type of the light client
PersistCreate(p) ==
    /\ pending[p].some
    /\ pending[p].v.call = "create_client"
    /\ ~client_type_store.some
    /\ LET c == pending[p].v
       IN  /\ client_type_store' = Some(LCP_CLIENT_TYPE)
           /\ client_store' = Some(c.any_client_state)
           /\ consensus_store' =
                  [consensus_store EXCEPT
                      ![c.result.height] = Some(c.any_consensus_state)]
           /\ created_height' = Some(c.result.height)
           /\ high_water' = Some(c.result.height)
    /\ pending' = [pending EXCEPT ![p] = None]
    /\ last' = [call |-> "persist", header |-> None, ret |-> Ok(<<>>)]
    /\ UNCHANGED <<serialized, applied, calls>>
    /\ UNCHANGED <<contextVars, dispatchVars>>

\* the client ID is taken: the host persists the client create_client
\* returned to p under another client ID
PersistCreateElsewhere(p) ==
    /\ pending[p].some
    /\ pending[p].v.call = "create_client"
    /\ client_type_store.some
    /\ pending' = [pending EXCEPT ![p] = None]
    /\ last' = [call |-> "persist", header |-> None, ret |-> Ok(<<>>)]
    /\ UNCHANGED <<client_type_store, client_store, consensus_store,
                   serialized, created_height, applied, high_water, calls>>
    /\ UNCHANGED <<contextVars, dispatchVars>>

\* another light client creates its client under the client ID
CreateForeignClient ==
    /\ ~client_type_store.some
    /\ client_type_store' = Some("07-tendermint")
    /\ client_store' = Some(ForeignClientState)
    /\ last' = [call |-> "foreign", header |-> None, ret |-> Ok(<<>>)]
    /\ UNCHANGED <<consensus_store, pending, serialized, created_height,
                   applied, high_water, calls>>
    /\ UNCHANGED <<contextVars, dispatchVars>>

\* the host persists the states update_client returned to p
Persist(p) ==
    /\ pending[p].some
    /\ pending[p].v.call = "update_client"
    /\ LET u == pending[p].v.result
           latest == u.new_any_client_state.message.latest_height.v
       IN  /\ client_store' = Some(u.new_any_client_state)
           /\ consensus_store' =
                  [consensus_store EXCEPT
                      ![u.height] = Some(u.new_any_consensus_state)]
           /\ applied' = Append(applied, pending[p].v.header_height)
           /\ high_water' = IF HeightLT(high_water.v, latest)
                            THEN Some(latest) ELSE high_water
    /\ pending' = [pending EXCEPT ![p] = None]
    /\ last' = [call |-> "persist", header |-> None, ret |-> Ok(<<>>)]
    /\ UNCHANGED <<client_type_store, serialized, created_height, calls>>
    /\ UNCHANGED <<contextVars, dispatchVars>>

NextClient ==
    \/ \E p \in Procs, any_client_state \in AnyClientStates,
          hashed \in BOOLEAN, initialised \in BOOLEAN :
           \E any_consensus_state \in AnyConsensusStatesFor(any_client_state) :
               CreateClient(p, any_client_state, any_consensus_state, hashed,
                            initialised)
    \/ \E p \in Procs, any_header \in AnyHeaders : UpdateClient(p, any_header)
    \/ \E p \in Procs : PersistCreate(p)
    \/ \E p \in Procs : PersistCreateElsewhere(p)
    \/ CreateForeignClient
    \/ \E p \in Procs : Persist(p)

SpecClient == InitClient /\ [][NextClient]_vars

----------------------------------------------------------------------------
(* One call of verify_client, verify_client_consensus, verify_connection   *)
(* or verify_channel, step by step.                                        *)

InitDispatch ==
    /\ request \in Requests
    /\ pc = "request"
    /\ steps = <<>>
    /\ response = NoResponse
    /\ ClientIdle
    /\ ctx = Empty
    /\ now = TimeOf(0)
    /\ bz = <<>>
    /\ wire = "none"
    /\ op = "init"
    /\ result = NoResult

\* let ek = ctx.get_enclave_key();
GetEnclaveKey ==
    /\ pc = "request"
    /\ pc' = "ek"
    /\ steps' = Append(steps, [step |-> "get_enclave_key", ret |-> Ok("ek")])
    /\ UNCHANGED <<request, response>>
    /\ UNCHANGED <<contextVars, clientVars>>

\* let lc = get_light_client_by_client_id(ctx, &input.client_id)?;
ResolveClient ==
    /\ pc = "ek"
    /\ LET r == get_light_client_by_client_id(request.client_id)
       IN  /\ pc' = propagate(r, "resolved")
           /\ steps' = Append(steps, [step |-> "resolve", ret |-> r])
           /\ response' = IF pc' = "failed" THEN r ELSE response
    /\ UNCHANGED request
    /\ UNCHANGED <<contextVars, clientVars>>

\* let res = lc.verify_..(ctx, ..)?;
Delegate(verified) ==
    /\ pc = "resolved"
    /\ LET r == verify_state(request.kind, request.client_id, verified)
       IN  /\ pc' = propagate(r, "delegated")
           /\ steps' = Append(steps, [step |-> "delegate", ret |-> r])
           /\ response' = IF pc' = "failed" THEN r ELSE response
    /\ UNCHANGED request
    /\ UNCHANGED <<contextVars, clientVars>>

\* prove_state_commitment(ek, res.state_commitment)?
Prove(signed) ==
    /\ pc = "delegated"
    /\ LET r == prove_state_commitment(steps[1].ret.value,
                                       steps[Len(steps)].ret.value, signed)
       IN  /\ pc' = propagate(r, "proved")
           /\ steps' = Append(steps, [step |-> "prove", ret |-> r])
           /\ response' = IF pc' = "failed" THEN r ELSE response
    /\ UNCHANGED request
    /\ UNCHANGED <<contextVars, clientVars>>

\* Ok(LightClientResult::Verify..(Verify..Result(proof)))
Respond ==
    /\ pc = "proved"
    /\ pc' = "responded"
    /\ response' = Ok(LightClientResult(request.kind,
                                        steps[Len(steps)].ret.value))
    /\ steps' = Append(steps, [step |-> "respond", ret |-> response'])
    /\ UNCHANGED request
    /\ UNCHANGED <<contextVars, clientVars>>

NextDispatch ==
    \/ GetEnclaveKey
    \/ ResolveClient
    \/ \E verified \in BOOLEAN : Delegate(verified)
    \/ \E signed \in BOOLEAN : Prove(signed)
    \/ Respond

SpecDispatch == InitDispatch /\ [][NextDispatch]_vars

----------------------------------------------------------------------------
(* Vocabulary of the client properties *)

LastUpdate == last.call = "update_client"
Accepted == LastUpdate /\ IsOk(last.ret)
SubmittedHeader == last.header.v.message
StoredClientState == ClientState_try_from(client_store.v).value
StoredLatest == client_store.v.message.latest_height.v
ReturnedClientState ==
    ClientState_try_from(last.ret.value.new_any_client_state).value
ReturnedConsensusState == last.ret.value.new_any_consensus_state.message
ReturnedCommitment == last.ret.value.commitment
AppliedHeights == {applied[i] : i \in 1..Len(applied)}

\* C14: an update returns a client state whose latest_height is the greater
\* of the stored latest_height and the header's height, and after headers
\* applied one after the other, in any order of heights, the stored
\* latest_height is the greatest of the height the client was created with
\* and the heights of all applied headers.
C14_LatestHeightIsMaximum ==
    /\ Accepted =>
           ReturnedClientState.latest_height =
               MaxHeightOf({StoredLatest, SubmittedHeader.height})
    /\ (serialized /\ created_height.some) =>
           StoredLatest = MaxHeightOf({created_height.v} \cup AppliedHeights)

\* headers were applied one after the other with a lower height after a
\* higher one, and the stored latest_height is above the created one
C14_Witness ==
    /\ serialized
    /\ created_height.some
    /\ \E i \in 1..Len(applied), j \in 1..Len(applied) :
           i < j /\ HeightLT(applied[j], applied[i])
    /\ HeightLT(created_height.v, StoredLatest)

\* C15: the commitment returned by create_client has no prev_state_id and
\* no prev_height, and the commitment returned by every successful
\* update_client has both.
C15_PrevNoneOnlyAtCreation ==
    /\ (last.call = "create_client" /\ IsOk(last.ret)) =>
           /\ ~last.ret.value.commitment.prev_state_id.some
           /\ ~last.ret.value.commitment.prev_height.some
    /\ Accepted =>
           /\ ReturnedCommitment.prev_state_id.some
           /\ ReturnedCommitment.prev_height.some

\* C17: while the host allows at most one call in flight for the client
\* ID, no step lowers the stored latest_height of the client.
C17_SerializedNeverDecreases ==
    [][(serialized /\ created_height.some) =>
           ~HeightLT(client_store'.v.message.latest_height.v, StoredLatest)]_vars

\* two overlapping updates were persisted and the stored latest_height is
\* lower than a value it held earlier
C17_Witness ==
    /\ ~serialized
    /\ created_height.some
    /\ Len(applied) >= 2
    /\ HeightLT(StoredLatest, high_water.v)

\* update_client gets as far as check_header_and_update_state: the header
\* decodes, the stored client is an LCP client whose state decodes, and the
\* header has a timestamp
ReachesCheck ==
    /\ last.header.v.type_url = LCP_HEADER_TYPE_URL
    /\ client_type_store = Some(LCP_CLIENT_TYPE)
    /\ client_store.some
    /\ IsOk(ClientState_try_from(client_store.v))
    /\ SubmittedHeader.get_timestamp.some

\* what the header must satisfy against the stored states
HeaderVerified(h) ==
    /\ h.prev_height.some
    /\ h.prev_state_id.some
    /\ consensus_store[h.prev_height.v].some
    /\ consensus_store[h.prev_height.v].v.message.state_id = h.prev_state_id.v
    /\ contains(StoredClientState, h.signer)
    /\ h.recovered = h.signer

\* C18: an update that gets to check the header returns new states exactly
\* when the header carries prev_height and prev_state_id, the consensus
\* state stored at prev_height has that state_id, the signer is contained
\* in the client state and the signer recovered from the signature is the
\* header's signer; otherwise nothing is returned and nothing is left to
\* persist.
C18_AcceptedOnlyIfVerified ==
    LastUpdate =>
        /\ IsOk(last.ret) <=> (ReachesCheck /\ HeaderVerified(SubmittedHeader))
        /\ ~IsOk(last.ret) => last.ret.value = <<>>

\* a header for another height than the one it builds on was accepted
C18_Witness ==
    /\ Accepted
    /\ SubmittedHeader.prev_height.v # SubmittedHeader.height
    /\ HeaderVerified(SubmittedHeader)

\* C20: an accepted update returns the stored client state with nothing
\* changed but latest_height (mr_enclave and key_expiration are kept), and
\* a consensus state made of the header's state_id and timestamp.
C20_OnlyLatestHeightChanges ==
    Accepted =>
        /\ ReturnedClientState.mr_enclave = StoredClientState.mr_enclave
        /\ ReturnedClientState.key_expiration = StoredClientState.key_expiration
        /\ ReturnedClientState =
               [StoredClientState EXCEPT
                   !.latest_height = ReturnedClientState.latest_height]
        /\ ReturnedConsensusState =
               [state_id |-> SubmittedHeader.state_id,
                timestamp |-> SubmittedHeader.timestamp]

\* an accepted update raised latest_height and returned a consensus state
\* other than the one the header builds on
C20_Witness ==
    /\ Accepted
    /\ HeightLT(StoredLatest, ReturnedClientState.latest_height)
    /\ ReturnedConsensusState #
           consensus_store[SubmittedHeader.prev_height.v].v.message

----------------------------------------------------------------------------
(* Vocabulary of the dispatch properties *)

LastStep == steps[Len(steps)]
StepFailed == Len(steps) > 0 /\ ~IsOk(LastStep.ret)

\* C16: the steps of a verify call run at most once each in the order
\* resolve, delegate, prove, respond; prove runs only after resolve and
\* delegate succeeded; a failed step is the last one of the call, and the
\* call then returns that step's error and no proof.
C16_StepsInOrderNoRetry ==
    /\ Len(steps) <= Len(DispatchOrder)
    /\ \A i \in 1..Len(steps) : steps[i].step = DispatchOrder[i]
    /\ \A i \in 1..Len(steps) :
           (i < Len(steps) \/ steps[i].step = "respond") => IsOk(steps[i].ret)
    /\ StepFailed <=> pc = "failed"
    /\ StepFailed =>
           /\ response = LastStep.ret
           /\ response.kind = "Err"
           /\ response.value = <<>>
    /\ IsOk(response) <=> pc = "responded"
    /\ IsOk(response) =>
           /\ Len(steps) = Len(DispatchOrder)
           /\ response.value.proof = steps[4].ret.value
    /\ pc \notin {"failed", "responded"} => response = NoResponse

\* the delegated verification failed: the call ended there without signing
C16_Witness ==
    /\ pc = "failed"
    /\ LastStep.step = "delegate"
    /\ response.kind = "Err"

====
